---- MODULE Spec2Model ----
(***************************************************************************)
(* A model of the finite state machine engine of                           *)
(* src/src/finite_state_machine.py: the loader (from_csv), the machine's   *)
(* public operations and the listener dispatch of transition_to.           *)
(*                                                                         *)
(* State ids are the 0-based list indices of the source. A transition is   *)
(* identified by its 1-based position in the stored transition sequence    *)
(* (the position stands for the object's identity); NoTransition stands    *)
(* for Python's None where a transition is expected. An action label is    *)
(* <<>> for None (epsilon) and <<s>> for the string s.                     *)
(***************************************************************************)
EXTENDS Integers, Sequences, FiniteSets, TLC

\* ------------------------------------------------------------------ bounds
\* Rows of the transition table of a loaded machine.
MaxTransitions == 2
\* Rows of the transition table of the machines that the deeper searches need.
MaxSearchTransitions == 3
\* Registrations of listeners.
MaxListeners == 2

\* Calls in a recorded sequence of register_listener and transition_to calls.
MaxHeardCalls == 4

\* ------------------------------------------------------------------ inputs
\* The state table of the documented fixture; the state tables loaded are its
\* prefixes (the empty table included).
FixtureStates == <<"start", "middle", "end">>

\* The transition table of the documented fixture.
FixtureTransitions == <<<<"", "start", "middle">>, <<"press_a", "middle", "end">>>>

\* The state table of the machines that transition_to is driven on with
\* listeners registered.
DrivenStates == <<"start", "middle">>

\* The state table of the machines that simulate_action is applied to where
\* two targets and a state behind one of them are needed besides the root.
DeepStates == <<"start", "middle", "end", "info">>

\* A name that no state table holds.
AbsentName == "absent"

\* The action column of a transition row: empty (epsilon) or a label.
ActionFields == {"", "press_a"}

\* The listener objects that driving code may register.
ListenerObjects == {"sensory", "motor"}

\* states, transitions, current_state, listeners: the machine's fields.
\* op, ret, events: the last call, how it ended (its value or the exception it
\* raised) and the listener callbacks it invoked, in order.
\* simulated: for each action, <<what the first simulate_action call with it
\* since the last transition_to call ended with, whether it was called again
\* since>> (<<>>: not called since).
VARIABLES states, transitions, current_state, listeners, op, ret, events, simulated

vars == <<states, transitions, current_state, listeners, op, ret, events, simulated>>

\* ----------------------------------------------------------------- values
\* Python's None as an action, and a string as an action.
None == <<>>
Label(s) == <<s>>

\* Python's None where find_transition returns no transition.
NoTransition == 0

\* Python's list indexing list[i] is defined for -len <= i < len; a negative
\* index counts from the end.
PyIndexOK(n, i) == -n <= i /\ i < n
PyPos(n, i) == IF i >= 0 THEN i + 1 ELSE n + i + 1

\* ----------------------------------------------------------------- loader
\* list.index(x): the 0-based position of the first element equal to x,
\* -1 standing for the ValueError it raises when there is none.
ListIndex(names, x) ==
  IF \E i \in 1..Len(names) : names[i] = x
  THEN (CHOOSE i \in 1..Len(names) :
          names[i] = x /\ \A j \in 1..(i - 1) : names[j] # x) - 1
  ELSE -1

load_states(rows) == [i \in 1..Len(rows) |-> [name |-> rows[i], incoming |-> <<>>, outgoing |-> <<>>]]

\* from_csv_rows appending the transition to the incoming list of the state it
\* leads from.
RECURSIVE from_csv_rows_IncomingAtSource(_, _, _, _, _)
from_csv_rows_IncomingAtSource(rows, k, state_names, sts, trs) ==
  IF k > Len(rows) THEN [ok |-> TRUE, states |-> sts, transitions |-> trs]
  ELSE LET row == rows[k]
           from_state == ListIndex(state_names, row[2])
           to_state == ListIndex(state_names, row[3])
       IN IF from_state < 0 \/ to_state < 0
          THEN [ok |-> FALSE, states |-> <<>>, transitions |-> <<>>]
          ELSE LET transition == [from_state |-> from_state, to_state |-> to_state,
                                  action |-> IF row[1] = "" THEN None ELSE Label(row[1])]
                   id == Len(trs) + 1
                   sts1 == [sts EXCEPT ![from_state + 1].outgoing = Append(@, id)]
                   sts2 == [sts1 EXCEPT ![from_state + 1].incoming = Append(@, id)]
               IN from_csv_rows_IncomingAtSource(rows, k + 1, state_names, sts2,
                                                 Append(trs, transition))

\* from_csv_rows passing over a row that names a state the state table lacks.
RECURSIVE from_csv_rows_SkipUnknown(_, _, _, _, _)
from_csv_rows_SkipUnknown(rows, k, state_names, sts, trs) ==
  IF k > Len(rows) THEN [ok |-> TRUE, states |-> sts, transitions |-> trs]
  ELSE LET row == rows[k]
           from_state == ListIndex(state_names, row[2])
           to_state == ListIndex(state_names, row[3])
       IN IF from_state < 0 \/ to_state < 0
          THEN from_csv_rows_SkipUnknown(rows, k + 1, state_names, sts, trs)
          ELSE LET transition == [from_state |-> from_state, to_state |-> to_state,
                                  action |-> IF row[1] = "" THEN None ELSE Label(row[1])]
                   id == Len(trs) + 1
                   sts1 == [sts EXCEPT ![from_state + 1].outgoing = Append(@, id)]
                   sts2 == [sts1 EXCEPT ![to_state + 1].incoming = Append(@, id)]
               IN from_csv_rows_SkipUnknown(rows, k + 1, state_names, sts2,
                                            Append(trs, transition))

\* The body of from_csv's loop, over rows k..Len(rows), with the states and
\* transitions built so far.
RECURSIVE from_csv_rows(_, _, _, _, _)
from_csv_rows(rows, k, state_names, sts, trs) ==
  IF k > Len(rows) THEN [ok |-> TRUE, states |-> sts, transitions |-> trs]
  ELSE LET row == rows[k]
           from_state == ListIndex(state_names, row[2])
           to_state == ListIndex(state_names, row[3])
       IN IF from_state < 0 \/ to_state < 0
          THEN [ok |-> FALSE, states |-> <<>>, transitions |-> <<>>]
          ELSE LET transition == [from_state |-> from_state, to_state |-> to_state,
                                  action |-> IF row[1] = "" THEN None ELSE Label(row[1])]
                   id == Len(trs) + 1
                   sts1 == [sts EXCEPT ![from_state + 1].outgoing = Append(@, id)]
                   sts2 == [sts1 EXCEPT ![to_state + 1].incoming = Append(@, id)]
               IN from_csv_rows(rows, k + 1, state_names, sts2, Append(trs, transition))

from_csv(state_rows, transition_rows) ==
  LET sts == load_states(state_rows)
      state_names == [i \in 1..Len(sts) |-> sts[i].name]
  IN from_csv_rows(transition_rows, 1, state_names, sts, <<>>)

\* The tables the model loads: a state table that is a prefix of all_states and
\* a transition table of up to max_transitions rows over its names.
StateTables(all_states) == {SubSeq(all_states, 1, n) : n \in 0..Len(all_states)}

RowsOver(names) ==
  {<<a, f, t>> : a \in ActionFields, f \in names, t \in names}

SeqsUpTo(S, n) == UNION {[1..k -> S] : k \in 0..n}

TransitionTables(state_rows, max_transitions) ==
  SeqsUpTo(RowsOver({state_rows[i] : i \in 1..Len(state_rows)}), max_transitions)

\* The transition tables that from_csv may be handed: as above, with rows that
\* may also name a state the state table lacks.
UncheckedTransitionTables(state_rows, max_transitions) ==
  SeqsUpTo(RowsOver({state_rows[i] : i \in 1..Len(state_rows)} \cup {AbsentName}),
           max_transitions)

\* ---------------------------------------------------------------- queries
NumStates == Len(states)

ValidId(s) == 0 <= s /\ s < NumStates

\* find_state: the loop over range(0, len(self.states)) from i on; -1 when
\* no state has the name.
RECURSIVE find_state_from(_, _)
find_state_from(i, name) ==
  IF i >= NumStates THEN -1
  ELSE IF states[i + 1].name = name THEN i
  ELSE find_state_from(i + 1, name)

find_state(name) == find_state_from(0, name)

\* name is declared without self (def name(state: int)), so the call
\* machine.name(s) of the driving code binds the machine to `state`, passes
\* s as a second positional argument and raises TypeError before the body
\* runs, whatever s is.
name(s) == <<"TypeError">>

\* find_transition_from keeping the last match instead of returning at the
\* first.
RECURSIVE find_transition_from_Last(_, _, _)
find_transition_from_Last(k, a, b) ==
  IF k > Len(transitions) THEN NoTransition
  ELSE LET later == find_transition_from_Last(k + 1, a, b)
       IN IF later # NoTransition THEN later
          ELSE IF transitions[k].from_state = a /\ transitions[k].to_state = b THEN k
          ELSE NoTransition

\* find_transition_from answering a pair of equal ids that no stored transition
\* connects with a transition made on the spot (a position past the stored
\* ones).
RECURSIVE find_transition_from_Reflexive(_, _, _)
find_transition_from_Reflexive(k, a, b) ==
  IF k > Len(transitions) THEN (IF a = b THEN Len(transitions) + 1 ELSE NoTransition)
  ELSE IF transitions[k].from_state = a /\ transitions[k].to_state = b THEN k
  ELSE find_transition_from_Reflexive(k + 1, a, b)

\* find_transition: the loop over self.transitions from position k on.
RECURSIVE find_transition_from(_, _, _)
find_transition_from(k, a, b) ==
  IF k > Len(transitions) THEN NoTransition
  ELSE IF transitions[k].from_state = a /\ transitions[k].to_state = b THEN k
  ELSE find_transition_from(k + 1, a, b)

find_transition(a, b) == find_transition_from(1, a, b)

\* ------------------------------------------------------------ transition_to
Event(pos, kind, arg, cs) ==
  [pos |-> pos, listener |-> listeners[pos], kind |-> kind, arg |-> arg, current_state |-> cs]

\* The first loop: onStateExited(current_state) for each listener.
ExitedCalls(cs) ==
  [i \in 1..Len(listeners) |-> Event(i, "onStateExited", cs, cs)]

\* EnteredCalls with the two callbacks of the second loop in the other order.
EnteredCalls_TransitionFirst(cs, transition) ==
  [k \in 1..(2 * Len(listeners)) |->
     IF k % 2 = 1 THEN Event((k + 1) \div 2, "onTransition", transition, cs)
     ELSE Event(k \div 2, "onStateEntered", cs, cs)]

\* EnteredCalls as two loops: onStateEntered for every listener, then
\* onTransition for every listener.
EnteredCalls_TwoLoops(cs, transition) ==
  [k \in 1..(2 * Len(listeners)) |->
     IF k <= Len(listeners) THEN Event(k, "onStateEntered", cs, cs)
     ELSE Event(k - Len(listeners), "onTransition", transition, cs)]

\* The second loop: onStateEntered(current_state), then onTransition(transition),
\* listener by listener.
EnteredCalls(cs, transition) ==
  [k \in 1..(2 * Len(listeners)) |->
     IF k % 2 = 1 THEN Event((k + 1) \div 2, "onStateEntered", cs, cs)
     ELSE Event(k \div 2, "onTransition", transition, cs)]

\* dispatch with every loop run to its end whatever a callback does, the
\* failure raised again after the loop it happened in.
dispatch_ContinueAfterFailure(state, transition, fail) ==
  LET n == Len(listeners)
      exited == ExitedCalls(current_state)
      entered == EnteredCalls(state, transition)
  IN IF fail \in 1..n
     THEN [current_state |-> current_state,
           events |-> exited,
           ret |-> <<"ListenerError", fail>>]
     ELSE IF fail \in (n + 1)..(3 * n)
     THEN [current_state |-> state,
           events |-> exited \o entered,
           ret |-> <<"ListenerError", fail>>]
     ELSE [current_state |-> state,
           events |-> exited \o entered,
           ret |-> <<"ok">>]

\* dispatch with the assignment of current_state moved above the first loop.
dispatch_AssignBeforeExited(state, transition, fail) ==
  LET n == Len(listeners)
      exited == ExitedCalls(current_state)
      entered == EnteredCalls(state, transition)
  IN IF fail \in 1..n
     THEN [current_state |-> state,
           events |-> SubSeq(exited, 1, fail),
           ret |-> <<"ListenerError", fail>>]
     ELSE IF fail \in (n + 1)..(3 * n)
     THEN [current_state |-> state,
           events |-> exited \o SubSeq(entered, 1, fail - n),
           ret |-> <<"ListenerError", fail>>]
     ELSE [current_state |-> state,
           events |-> exited \o entered,
           ret |-> <<"ok">>]

\* dispatch restoring current_state when a callback of the second loop
\* raises.
dispatch_RollBack(state, transition, fail) ==
  LET n == Len(listeners)
      exited == ExitedCalls(current_state)
      entered == EnteredCalls(state, transition)
  IN IF fail \in 1..n
     THEN [current_state |-> current_state,
           events |-> SubSeq(exited, 1, fail),
           ret |-> <<"ListenerError", fail>>]
     ELSE IF fail \in (n + 1)..(3 * n)
     THEN [current_state |-> current_state,
           events |-> exited \o SubSeq(entered, 1, fail - n),
           ret |-> <<"ListenerError", fail>>]
     ELSE [current_state |-> state,
           events |-> exited \o entered,
           ret |-> <<"ok">>]

\* The branch of transition_to taken when a transition was found: the two
\* loops around the assignment, where the fail-th callback invoked raises
\* (fail = 0: none does) and ends the call there.
dispatch(state, transition, fail) ==
  LET n == Len(listeners)
      exited == ExitedCalls(current_state)
      entered == EnteredCalls(state, transition)
  IN IF fail \in 1..n
     THEN [current_state |-> current_state,
           events |-> SubSeq(exited, 1, fail),
           ret |-> <<"ListenerError", fail>>]
     ELSE IF fail \in (n + 1)..(3 * n)
     THEN [current_state |-> state,
           events |-> exited \o SubSeq(entered, 1, fail - n),
           ret |-> <<"ListenerError", fail>>]
     ELSE [current_state |-> state,
           events |-> exited \o entered,
           ret |-> <<"ok">>]

\* no_transition with the first loop of transition_to run before the lookup's
\* test: onStateExited goes out although the call then fails.
no_transition_NotifyExit(state) ==
  IF PyIndexOK(NumStates, current_state) /\ PyIndexOK(NumStates, state)
  THEN [current_state |-> current_state,
        events |-> ExitedCalls(current_state),
        ret |-> <<"ValueError",
                  states[PyPos(NumStates, current_state)].name,
                  states[PyPos(NumStates, state)].name>>]
  ELSE [current_state |-> current_state, events |-> <<>>, ret |-> <<"IndexError">>]

\* The else branch: the message of the ValueError indexes self.states with
\* both ids, which raises IndexError for an id that is no list index.
no_transition(state) ==
  IF PyIndexOK(NumStates, current_state) /\ PyIndexOK(NumStates, state)
  THEN [current_state |-> current_state,
        events |-> <<>>,
        ret |-> <<"ValueError",
                  states[PyPos(NumStates, current_state)].name,
                  states[PyPos(NumStates, state)].name>>]
  ELSE [current_state |-> current_state, events |-> <<>>, ret |-> <<"IndexError">>]

\* transition_to with self.current_state = state moved above the lookup's
\* test, so that it is assigned on both branches.
transition_to_AssignFirst(state, fail) ==
  LET transition == find_transition(current_state, state)
  IN IF transition # NoTransition
     THEN dispatch(state, transition, fail)
     ELSE [no_transition(state) EXCEPT !.current_state = state]

\* transition_to(state): what it leaves as current_state, the callbacks it
\* invoked (one that raised included) and how the call ended.
transition_to(state, fail) ==
  LET transition == find_transition(current_state, state)
  IN IF transition # NoTransition
     THEN dispatch(state, transition, fail)
     ELSE no_transition(state)

\* ---------------------------------------------------------- simulate_action
\* __perform_action: the loop over self.states[state].outgoing from position i
\* on, with the shared visited list and the possible_states built so far.
\* Returns the list and the visited list as the call leaves it.
RECURSIVE perform_action(_, _, _), perform_action_loop(_, _, _, _, _)
\* perform_action_loop following every outgoing transition to an unvisited
\* state, whatever its action.
perform_action_loop_AnyLabel(action, outgoing, i, visited, possible_states) ==
  IF i > Len(outgoing) THEN [possible_states |-> possible_states, visited |-> visited]
  ELSE LET transition == transitions[outgoing[i]]
       IN IF ~visited[transition.to_state + 1]
          THEN LET r == perform_action(None, transition.to_state, visited)
               IN perform_action_loop(action, outgoing, i + 1, r.visited,
                    Append(possible_states, transition.to_state) \o r.possible_states)
          ELSE perform_action_loop(action, outgoing, i + 1, visited, possible_states)

\* perform_action_loop putting off the recursion into a target until the rest
\* of the outgoing list is done.
perform_action_loop_TargetsFirst(action, outgoing, i, visited, possible_states) ==
  IF i > Len(outgoing) THEN [possible_states |-> possible_states, visited |-> visited]
  ELSE LET transition == transitions[outgoing[i]]
       IN IF transition.action = action /\ ~visited[transition.to_state + 1]
          THEN LET rest == perform_action_loop(action, outgoing, i + 1,
                             [visited EXCEPT ![transition.to_state + 1] = TRUE],
                             Append(possible_states, transition.to_state))
                   r == perform_action(None, transition.to_state, rest.visited)
               IN [possible_states |-> rest.possible_states \o r.possible_states,
                   visited |-> r.visited]
          ELSE perform_action_loop(action, outgoing, i + 1, visited, possible_states)

\* perform_action_loop following the epsilon transitions of a state as well
\* as those with the action.
perform_action_loop_EpsilonToo(action, outgoing, i, visited, possible_states) ==
  IF i > Len(outgoing) THEN [possible_states |-> possible_states, visited |-> visited]
  ELSE LET transition == transitions[outgoing[i]]
       IN IF transition.action \in {action, None} /\ ~visited[transition.to_state + 1]
          THEN LET r == perform_action(None, transition.to_state, visited)
               IN perform_action_loop(action, outgoing, i + 1, r.visited,
                    Append(possible_states, transition.to_state) \o r.possible_states)
          ELSE perform_action_loop(action, outgoing, i + 1, visited, possible_states)

perform_action_loop(action, outgoing, i, visited, possible_states) ==
  IF i > Len(outgoing) THEN [possible_states |-> possible_states, visited |-> visited]
  ELSE LET transition == transitions[outgoing[i]]
       IN IF transition.action = action /\ ~visited[transition.to_state + 1]
          THEN LET r == perform_action(None, transition.to_state, visited)
               IN perform_action_loop(action, outgoing, i + 1, r.visited,
                    Append(possible_states, transition.to_state) \o r.possible_states)
          ELSE perform_action_loop(action, outgoing, i + 1, visited, possible_states)

perform_action(action, state, visited) ==
  perform_action_loop(action, states[state + 1].outgoing, 1,
                      [visited EXCEPT ![state + 1] = TRUE], <<>>)

simulate_action(action) ==
  IF ~PyIndexOK(NumStates, current_state) THEN <<"IndexError">>
  ELSE <<"ok", perform_action(action, current_state,
                              [i \in 1..NumStates |-> FALSE]).possible_states>>

\* ---------------------------------------------------------------------- bfs
\* prev holds None (<<>>) or an id (<<id>>).

\* bfs_neighbors searching depth first: a neighbour found unvisited is
\* expanded at once, before the next neighbour of the same state, and nothing
\* is queued.
RECURSIVE bfs_neighbors_DepthFirst(_, _, _, _, _, _)
bfs_neighbors_DepthFirst(neighbors, i, current, q, visited, prev) ==
  IF i > Len(neighbors) THEN [q |-> q, visited |-> visited, prev |-> prev]
  ELSE LET next == neighbors[i]
       IN IF ~visited[next + 1]
          THEN LET outgoing == states[next + 1].outgoing
                   deeper == [k \in 1..Len(outgoing) |-> transitions[outgoing[k]].to_state]
                   r == bfs_neighbors_DepthFirst(deeper, 1, next, q,
                          [visited EXCEPT ![next + 1] = TRUE],
                          [prev EXCEPT ![next + 1] = <<current>>])
               IN bfs_neighbors_DepthFirst(neighbors, i + 1, current, r.q, r.visited, r.prev)
          ELSE bfs_neighbors_DepthFirst(neighbors, i + 1, current, q, visited, prev)

\* bfs_neighbors queueing every neighbor, visited or not.
RECURSIVE bfs_neighbors_NoVisitedTest(_, _, _, _, _, _)
bfs_neighbors_NoVisitedTest(neighbors, i, current, q, visited, prev) ==
  IF i > Len(neighbors) THEN [q |-> q, visited |-> visited, prev |-> prev]
  ELSE LET next == neighbors[i]
       IN bfs_neighbors_NoVisitedTest(neighbors, i + 1, current, Append(q, next),
                                      [visited EXCEPT ![next + 1] = TRUE],
                                      [prev EXCEPT ![next + 1] = <<current>>])

\* The for loop over the neighbors of current, from position i on.
RECURSIVE bfs_neighbors(_, _, _, _, _, _)
bfs_neighbors(neighbors, i, current, q, visited, prev) ==
  IF i > Len(neighbors) THEN [q |-> q, visited |-> visited, prev |-> prev]
  ELSE LET next == neighbors[i]
       IN IF ~visited[next + 1]
          THEN bfs_neighbors(neighbors, i + 1, current, Append(q, next),
                             [visited EXCEPT ![next + 1] = TRUE],
                             [prev EXCEPT ![next + 1] = <<current>>])
          ELSE bfs_neighbors(neighbors, i + 1, current, q, visited, prev)

\* The while loop over the queue; returns prev.
RECURSIVE bfs_loop(_, _, _)
\* bfs_loop reading the neighbors of a state off its incoming list.
bfs_loop_Incoming(q, visited, prev) ==
  IF Len(q) = 0 THEN prev
  ELSE LET current == Head(q)
           incoming == states[PyPos(NumStates, current)].incoming
           neighbors == [k \in 1..Len(incoming) |-> transitions[incoming[k]].from_state]
           r == bfs_neighbors(neighbors, 1, current, Tail(q), visited, prev)
       IN bfs_loop(r.q, r.visited, r.prev)

bfs_loop(q, visited, prev) ==
  IF Len(q) = 0 THEN prev
  ELSE LET current == Head(q)
           outgoing == states[PyPos(NumStates, current)].outgoing
           neighbors == [k \in 1..Len(outgoing) |-> transitions[outgoing[k]].to_state]
           r == bfs_neighbors(neighbors, 1, current, Tail(q), visited, prev)
       IN bfs_loop(r.q, r.visited, r.prev)

\* The walk back over prev from `at`, the path built so far in visiting order.
RECURSIVE bfs_walk(_, _, _)
bfs_walk(at, prev, path) ==
  IF at = <<>> THEN path
  ELSE bfs_walk(prev[PyPos(NumStates, at[1])], prev, Append(path, at[1]))

Reverse(s) == [i \in 1..Len(s) |-> s[Len(s) + 1 - i]]

\* bfs returning the walked path whatever it starts with.
bfs_NoStartTest(end, start) ==
  IF ~PyIndexOK(NumStates, start) THEN <<"IndexError">>
  ELSE LET n == NumStates
           visited == [[i \in 1..n |-> FALSE] EXCEPT ![PyPos(n, start)] = TRUE]
           prev == bfs_loop(<<start>>, visited, [i \in 1..n |-> <<>>])
       IN IF ~PyIndexOK(n, end) THEN <<"IndexError">>
          ELSE <<"ok", Reverse(bfs_walk(<<end>>, prev, <<>>))>>

\* bfs taking a walk of a single state for the sign that end was not reached.
bfs_LongPathTest(end, start) ==
  IF ~PyIndexOK(NumStates, start) THEN <<"IndexError">>
  ELSE LET n == NumStates
           visited == [[i \in 1..n |-> FALSE] EXCEPT ![PyPos(n, start)] = TRUE]
           prev == bfs_loop(<<start>>, visited, [i \in 1..n |-> <<>>])
       IN IF ~PyIndexOK(n, end) THEN <<"IndexError">>
          ELSE LET path == Reverse(bfs_walk(<<end>>, prev, <<>>))
               IN <<"ok", IF Len(path) > 1 THEN path ELSE <<>> >>

\* bfs(end, start); start = -1 is also what a call without start passes.
bfs(end, start) ==
  IF ~PyIndexOK(NumStates, start) THEN <<"IndexError">>      \* visited[start] = True
  ELSE LET n == NumStates
           visited == [[i \in 1..n |-> FALSE] EXCEPT ![PyPos(n, start)] = TRUE]
           prev == bfs_loop(<<start>>, visited, [i \in 1..n |-> <<>>])
       IN IF ~PyIndexOK(n, end) THEN <<"IndexError">>        \* prev[at]
          ELSE LET path == Reverse(bfs_walk(<<end>>, prev, <<>>))
               IN <<"ok", IF path[1] = start THEN path ELSE <<>> >>

\* ------------------------------------------------------------------ actions
\* Ids that driving code may pass: every valid id, one negative and one too
\* large.
IdInputs == (-1)..NumStates

NameInputs == {states[i].name : i \in 1..NumStates} \cup {AbsentName}

ActionInputs == {None} \cup {Label(a) : a \in ActionFields \ {""}}

\* A machine loaded by from_csv from tables of the given size, before any call.
Loaded(all_states, max_transitions) ==
  /\ \E state_rows \in StateTables(all_states) :
       \E transition_rows \in TransitionTables(state_rows, max_transitions) :
         LET m == from_csv(state_rows, transition_rows)
         IN /\ m.ok
            /\ states = m.states
            /\ transitions = m.transitions
  /\ current_state = 0
  /\ listeners = <<>>
  /\ op = <<"from_csv">>
  /\ ret = <<"ok">>
  /\ events = <<>>
  /\ simulated = [a \in ActionInputs |-> <<>>]

\* The machines with listeners: up to two states.
Init == Loaded(DrivenStates, MaxTransitions)

\* The machines the queries are applied to: up to the three states of the
\* fixture.
InitQuery == Loaded(FixtureStates, MaxTransitions)

\* The same with one more row, for the searches whose cases need three
\* transitions.
InitSearch == Loaded(FixtureStates, MaxSearchTransitions)

\* The machines of four states, with as many rows as the deeper searches.
InitDeep ==
  /\ \E transition_rows \in TransitionTables(DeepStates, MaxSearchTransitions) :
       LET m == from_csv(DeepStates, transition_rows)
       IN /\ m.ok
          /\ states = m.states
          /\ transitions = m.transitions
  /\ current_state = 0
  /\ listeners = <<>>
  /\ op = <<"from_csv">>
  /\ ret = <<"ok">>
  /\ events = <<>>
  /\ simulated = [a \in ActionInputs |-> <<>>]

\* Before the driving script's load: no machine exists yet. The fields hold
\* empty values that no operation reads, since there is no object to call one
\* on.
InitLoad ==
  /\ states = <<>>
  /\ transitions = <<>>
  /\ current_state = 0
  /\ listeners = <<>>
  /\ op = <<"import">>
  /\ ret = <<"ok">>
  /\ events = <<>>
  /\ simulated = [a \in ActionInputs |-> <<>>]

\* machine = from_csv(folder), the script's one load: the machine returned is
\* bound, or list.index raises ValueError out of from_csv and nothing is.
FromCsv(state_rows, transition_rows) ==
  LET m == from_csv(state_rows, transition_rows)
  IN /\ op = <<"import">>
     /\ op' = <<"from_csv", state_rows, transition_rows>>
     /\ IF m.ok
        THEN /\ states' = m.states
             /\ transitions' = m.transitions
             /\ current_state' = 0
             /\ listeners' = <<>>
             /\ ret' = <<"ok">>
        ELSE /\ ret' = <<"ValueError">>
             /\ UNCHANGED <<states, transitions, current_state, listeners>>
     /\ events' = <<>>
     /\ UNCHANGED simulated

\* The machine loaded from the fixture's tables.
InitFixture ==
  LET m == from_csv(FixtureStates, FixtureTransitions)
  IN /\ m.ok
     /\ states = m.states
     /\ transitions = m.transitions
     /\ current_state = 0
     /\ listeners = <<>>
     /\ op = <<"from_csv">>
     /\ ret = <<"ok">>
     /\ events = <<>>
     /\ simulated = [a \in ActionInputs |-> <<>>]

RegisterListener(listener) ==
  /\ Len(listeners) < MaxListeners
  /\ listeners' = Append(listeners, listener)
  /\ op' = <<"register_listener", listener>>
  /\ ret' = <<"ok">>
  /\ events' = <<>>
  /\ UNCHANGED <<states, transitions, current_state, simulated>>

Name(s) ==
  /\ op' = <<"name", s>>
  /\ ret' = name(s)
  /\ events' = <<>>
  /\ UNCHANGED <<states, transitions, current_state, listeners, simulated>>

FindState(n) ==
  /\ op' = <<"find_state", n>>
  /\ ret' = <<"ok", find_state(n)>>
  /\ events' = <<>>
  /\ UNCHANGED <<states, transitions, current_state, listeners, simulated>>

FindTransition(a, b) ==
  /\ op' = <<"find_transition", a, b>>
  /\ ret' = <<"ok", find_transition(a, b)>>
  /\ events' = <<>>
  /\ UNCHANGED <<states, transitions, current_state, listeners, simulated>>

TransitionTo(state, fail) ==
  LET r == transition_to(state, fail)
  IN /\ current_state' = r.current_state
     /\ op' = <<"transition_to", state>>
     /\ ret' = r.ret
     /\ events' = r.events
     /\ simulated' = [a \in ActionInputs |-> <<>>]
     /\ UNCHANGED <<states, transitions, listeners>>

\* SimulateAction moving the machine to the first state it found.
SimulateAction_Commit(action) ==
  /\ op' = <<"simulate_action", action>>
  /\ ret' = simulate_action(action)
  /\ events' = <<>>
  /\ simulated' = [simulated EXCEPT ![action] =
                     IF @ = <<>> THEN <<ret', FALSE>> ELSE <<@[1], TRUE>>]
  /\ current_state' = IF ret'[1] = "ok" /\ ret'[2] # <<>> THEN ret'[2][1] ELSE current_state
  /\ UNCHANGED <<states, transitions, listeners>>

SimulateAction(action) ==
  /\ op' = <<"simulate_action", action>>
  /\ ret' = simulate_action(action)
  /\ events' = <<>>
  /\ simulated' = [simulated EXCEPT ![action] =
                     IF @ = <<>> THEN <<ret', FALSE>> ELSE <<@[1], TRUE>>]
  /\ UNCHANGED <<states, transitions, current_state, listeners>>

Bfs(end, start) ==
  /\ op' = <<"bfs", end, start>>
  /\ ret' = bfs(end, start)
  /\ events' = <<>>
  /\ UNCHANGED <<states, transitions, current_state, listeners, simulated>>

\* The driving loop of observe_state is under way: a path was found and the
\* loop over path[1:] has neither reached its end nor been left by an
\* exception.
ObserveRunning ==
  /\ op[1] = "observe_state"
  /\ ret[1] = "ok"
  /\ op[4] < Len(op[3])

\* observe_state up to the search, the current state passed as start:
\* path = bfs(observed_state, current_state). op holds the observed state,
\* the path and the 1-based position of the path that the machine stands at.
ObservePath(observed_state) ==
  /\ ~ObserveRunning
  /\ ret' = bfs(observed_state, current_state)
  /\ op' = <<"observe_state", observed_state, IF ret'[1] = "ok" THEN ret'[2] ELSE <<>>, 1>>
  /\ events' = <<>>
  /\ UNCHANGED <<states, transitions, current_state, listeners, simulated>>

\* One iteration of `for state in path[1:]: transition_to(state)`.
ObserveStep ==
  /\ ObserveRunning
  /\ LET r == transition_to(op[3][op[4] + 1], 0)
     IN /\ current_state' = r.current_state
        /\ ret' = r.ret
        /\ events' = r.events
  /\ op' = [op EXCEPT ![4] = @ + 1]
  /\ simulated' = [a \in ActionInputs |-> <<>>]
  /\ UNCHANGED <<states, transitions, listeners>>

\* A call of bfs or of simulate_action is between its first and its last
\* statement: ret holds <<"running", the call's locals>>. For bfs the locals
\* are q, visited and prev, with enqueued, the ids put into q so far in order;
\* for simulate_action they are the shared visited list and the stack of the
\* frames of __perform_action (state, action, position i in the outgoing
\* list, possible_states), with entered, the states that __perform_action was
\* called with so far in order. (simulated is the record of the calls taken
\* as one step, SimulateAction; the calls taken statement by statement leave
\* it alone.)
Running == ret[1] = "running"

\* bfs up to the while loop.
BfsCall(end, start) ==
  /\ ~Running
  /\ op' = <<"bfs", end, start>>
  /\ ret' = IF ~PyIndexOK(NumStates, start) THEN <<"IndexError">>
            ELSE <<"running",
                   [q |-> <<start>>,
                    visited |-> [[i \in 1..NumStates |-> FALSE]
                                   EXCEPT ![PyPos(NumStates, start)] = TRUE],
                    prev |-> [i \in 1..NumStates |-> <<>>],
                    enqueued |-> <<start>>]>>
  /\ events' = <<>>
  /\ UNCHANGED <<states, transitions, current_state, listeners, simulated>>

\* One iteration of `while q`.
BfsIterate ==
  /\ Running
  /\ op[1] = "bfs"
  /\ Len(ret[2].q) > 0
  /\ LET l == ret[2]
         current == Head(l.q)
         outgoing == states[PyPos(NumStates, current)].outgoing
         neighbors == [k \in 1..Len(outgoing) |-> transitions[outgoing[k]].to_state]
         r == bfs_neighbors(neighbors, 1, current, Tail(l.q), l.visited, l.prev)
     IN ret' = <<"running",
                 [q |-> r.q, visited |-> r.visited, prev |-> r.prev,
                  enqueued |-> l.enqueued \o SubSeq(r.q, Len(l.q), Len(r.q))]>>
  /\ UNCHANGED <<states, transitions, current_state, listeners, op, events, simulated>>

\* bfs after the while loop: the walk over prev and the return.
BfsReturn ==
  /\ Running
  /\ op[1] = "bfs"
  /\ Len(ret[2].q) = 0
  /\ ret' = IF ~PyIndexOK(NumStates, op[2]) THEN <<"IndexError">>
            ELSE LET path == Reverse(bfs_walk(<<op[2]>>, ret[2].prev, <<>>))
                 IN <<"ok", IF path[1] = op[3] THEN path ELSE <<>> >>
  /\ UNCHANGED <<states, transitions, current_state, listeners, op, events, simulated>>

\* simulate_action up to the first step of the loop of __perform_action.
SimulateCall(action) ==
  /\ ~Running
  /\ op' = <<"simulate_action", action>>
  /\ ret' = IF ~PyIndexOK(NumStates, current_state) THEN <<"IndexError">>
            ELSE <<"running",
                   [stack |-> <<[state |-> current_state, action |-> action, i |-> 1,
                                 possible_states |-> <<>>]>>,
                    visited |-> [[i \in 1..NumStates |-> FALSE]
                                   EXCEPT ![PyPos(NumStates, current_state)] = TRUE],
                    entered |-> <<current_state>>]>>
  /\ events' = <<>>
  /\ UNCHANGED <<states, transitions, current_state, listeners, simulated>>

\* One step of the innermost call of __perform_action: its return when its
\* loop is over (the caller extends its list with the list returned; the
\* outermost return ends simulate_action), else the test of the transition at
\* position i and, when it passes, the append and the recursive call.
SimulateStep ==
  /\ Running
  /\ op[1] = "simulate_action"
  /\ LET l == ret[2]
         d == Len(l.stack)
         f == l.stack[d]
         outgoing == states[PyPos(NumStates, f.state)].outgoing
     IN IF f.i > Len(outgoing)
        THEN IF d = 1
             THEN ret' = <<"ok", f.possible_states>>
             ELSE ret' = <<"running",
                           [l EXCEPT !.stack =
                              SubSeq(l.stack, 1, d - 2) \o
                              <<[l.stack[d - 1] EXCEPT
                                   !.possible_states = @ \o f.possible_states]>>]>>
        ELSE LET transition == transitions[outgoing[f.i]]
             IN IF transition.action = f.action /\ ~l.visited[transition.to_state + 1]
                   THEN ret' = <<"running",
                                 [stack |-> SubSeq(l.stack, 1, d - 1) \o
                                      <<[f EXCEPT !.i = @ + 1,
                                                  !.possible_states =
                                                     Append(@, transition.to_state)],
                                        [state |-> transition.to_state, action |-> None,
                                         i |-> 1, possible_states |-> <<>>]>>,
                                  visited |-> [l.visited EXCEPT
                                                 ![transition.to_state + 1] = TRUE],
                                  entered |-> Append(l.entered, transition.to_state)]>>
                   ELSE ret' = <<"running",
                                 [l EXCEPT !.stack[d].i = @ + 1]>>
  /\ UNCHANGED <<states, transitions, current_state, listeners, op, events, simulated>>

\* The calls made so far, where the caller keeps a record of them: op[3], a
\* sequence of <<operation, argument, how it ended, callbacks invoked>>.
HeardLog == IF Len(op) = 3 THEN op[3] ELSE <<>>

\* HeardRegister leaving out a listener that is registered already.
HeardRegister_Dedupe(listener) ==
  /\ Len(HeardLog) < MaxHeardCalls
  /\ Len(listeners) < MaxListeners
  /\ listeners' = IF \E i \in 1..Len(listeners) : listeners[i] = listener
                  THEN listeners ELSE Append(listeners, listener)
  /\ op' = <<"register_listener", listener,
             Append(HeardLog, <<"register_listener", listener, "ok", <<>> >>)>>
  /\ ret' = <<"ok">>
  /\ events' = <<>>
  /\ UNCHANGED <<states, transitions, current_state, simulated>>

\* register_listener, recorded.
HeardRegister(listener) ==
  /\ Len(HeardLog) < MaxHeardCalls
  /\ Len(listeners) < MaxListeners
  /\ listeners' = Append(listeners, listener)
  /\ op' = <<"register_listener", listener,
             Append(HeardLog, <<"register_listener", listener, "ok", <<>> >>)>>
  /\ ret' = <<"ok">>
  /\ events' = <<>>
  /\ UNCHANGED <<states, transitions, current_state, simulated>>

\* transition_to with callbacks that return, recorded.
HeardTransitionTo(state) ==
  /\ Len(HeardLog) < MaxHeardCalls
  /\ LET r == transition_to(state, 0)
     IN /\ current_state' = r.current_state
        /\ ret' = r.ret
        /\ events' = r.events
        /\ op' = <<"transition_to", state,
                   Append(HeardLog, <<"transition_to", state, r.ret[1], r.events>>)>>
  /\ simulated' = [a \in ActionInputs |-> <<>>]
  /\ UNCHANGED <<states, transitions, listeners>>

\* Every public operation, called in any order.
Next ==
  \/ \E listener \in ListenerObjects : RegisterListener(listener)
  \/ \E s \in IdInputs : Name(s)
  \/ \E n \in NameInputs : FindState(n)
  \/ \E a \in IdInputs, b \in IdInputs : FindTransition(a, b)
  \/ \E state \in IdInputs, fail \in 0..(3 * Len(listeners)) : TransitionTo(state, fail)
  \/ \E action \in ActionInputs : SimulateAction(action)
  \/ \E end \in IdInputs, start \in IdInputs : Bfs(end, start)

Spec == Init /\ [][Next]_vars

\* Listener registration and transition_to alone.
NextListen ==
  \/ \E listener \in ListenerObjects : RegisterListener(listener)
  \/ \E state \in IdInputs, fail \in 0..(3 * Len(listeners)) : TransitionTo(state, fail)

SpecListen == Init /\ [][NextListen]_vars

\* The lookups (find_state, name, find_transition) applied to a loaded machine.
NextLookup ==
  \/ \E s \in IdInputs : Name(s)
  \/ \E n \in NameInputs : FindState(n)
  \/ \E a \in IdInputs, b \in IdInputs : FindTransition(a, b)

SpecLookup == InitQuery /\ [][NextLookup]_vars

\* bfs applied to a loaded machine.
NextBfs == \E end \in IdInputs, start \in IdInputs : Bfs(end, start)

SpecBfs == InitQuery /\ [][NextBfs]_vars

\* bfs between the states of a loaded machine with one more row.
NextBfsValid ==
  \E end \in 0..(NumStates - 1), start \in 0..(NumStates - 1) : Bfs(end, start)

SpecBfsSearch == InitSearch /\ [][NextBfsValid]_vars

\* simulate_action applied to a loaded machine in each state that
\* transition_to can bring it to.
NextSimulate ==
  \/ \E state \in IdInputs : TransitionTo(state, 0)
  \/ \E action \in ActionInputs : SimulateAction(action)

SpecSimulate == InitSearch /\ [][NextSimulate]_vars

\* simulate_action between the operations that change the machine (the
\* listeners' callbacks returning).
NextSimulateFrame ==
  \/ \E listener \in ListenerObjects : RegisterListener(listener)
  \/ \E state \in IdInputs : TransitionTo(state, 0)
  \/ \E action \in ActionInputs : SimulateAction(action)

SpecSimulateFrame == Init /\ [][NextSimulateFrame]_vars

\* The load alone, from tables whose rows may name unknown states.
NextLoad ==
  \E state_rows \in StateTables(DrivenStates) :
    \E transition_rows \in UncheckedTransitionTables(state_rows, MaxTransitions) :
      FromCsv(state_rows, transition_rows)

SpecLoad == InitLoad /\ [][NextLoad]_vars

\* The same operations on the fixture.
SpecFixture == InitFixture /\ [][NextSimulateFrame]_vars

\* The search for an observed state followed by the driving loop over the
\* path found.
NextObserve ==
  \/ \E observed_state \in IdInputs : ObservePath(observed_state)
  \/ ObserveStep

SpecObserve == InitQuery /\ [][NextObserve]_vars

\* The transition resolver: find_transition and transition_to, with listeners
\* whose callbacks return.
NextResolve ==
  \/ \E listener \in ListenerObjects : RegisterListener(listener)
  \/ \E a \in IdInputs, b \in IdInputs : FindTransition(a, b)
  \/ \E state \in IdInputs : TransitionTo(state, 0)

SpecResolve == Init /\ [][NextResolve]_vars

\* simulate_action applied to a freshly loaded machine of four states.
NextSimulateDeep == \E action \in ActionInputs : SimulateAction(action)

SpecSimulateDeep == InitDeep /\ [][NextSimulateDeep]_vars

\* bfs and simulate_action statement by statement on a loaded machine, one
\* call at a time; a call under way keeps running (the interpreter executes
\* its next step).
NextRun ==
  \/ \E end \in IdInputs, start \in IdInputs : BfsCall(end, start)
  \/ BfsIterate
  \/ BfsReturn
  \/ \E action \in ActionInputs : SimulateCall(action)
  \/ SimulateStep

SpecRun ==
  /\ InitQuery
  /\ [][NextRun]_vars
  /\ WF_vars(BfsIterate)
  /\ WF_vars(BfsReturn)
  /\ WF_vars(SimulateStep)

\* Sequences of register_listener and transition_to calls between the states
\* of a loaded machine, the calls recorded.
NextHeard ==
  \/ \E listener \in ListenerObjects : HeardRegister(listener)
  \/ \E state \in 0..(NumStates - 1) : HeardTransitionTo(state)

SpecHeard == Init /\ [][NextHeard]_vars

\* =================================================================== claims
\* Helpers of the claims, read off the stored transition sequence alone.
Edge(a, b) ==
  \E k \in 1..Len(transitions) :
    transitions[k].from_state = a /\ transitions[k].to_state = b

Range(s) == {s[i] : i \in 1..Len(s)}

\* The callbacks of a call that went to the registration at position pos, and
\* those of one kind.
EventsAt(evs, pos) == SelectSeq(evs, LAMBDA e : e.pos = pos)
EventsOfKind(evs, kind) == SelectSeq(evs, LAMBDA e : e.kind = kind)

\* C1: when a stored transition from current_state to t exists and no callback
\* raises, transition_to(t) sets current_state to t; each registered listener
\* receives exactly onStateExited(old), onStateEntered(t), onTransition(a stored
\* transition from old to t), in that order; each kind of callback reaches the
\* listeners in registration order; every onStateExited call sees the old
\* current_state and every onStateEntered/onTransition call the new one.
C1_Dispatch ==
  [][(op'[1] = "transition_to" /\ Edge(current_state, op'[2]) /\ ret'[1] # "ListenerError")
       => LET old == current_state
              t == op'[2]
              n == Len(listeners)
          IN /\ ret' = <<"ok">>
             /\ current_state' = t
             /\ Len(events') = 3 * n
             /\ \A i \in 1..n :
                  LET mine == EventsAt(events', i)
                  IN /\ Len(mine) = 3
                     /\ \A j \in 1..3 : mine[j].listener = listeners[i]
                     /\ mine[1].kind = "onStateExited" /\ mine[1].arg = old
                     /\ mine[2].kind = "onStateEntered" /\ mine[2].arg = t
                     /\ mine[3].kind = "onTransition"
                     /\ mine[3].arg \in 1..Len(transitions)
                     /\ transitions[mine[3].arg].from_state = old
                     /\ transitions[mine[3].arg].to_state = t
             /\ \A kind \in {"onStateExited", "onStateEntered", "onTransition"} :
                  LET these == EventsOfKind(events', kind)
                  IN /\ Len(these) = n
                     /\ \A i \in 1..n : these[i].pos = i
             /\ \A j \in 1..Len(events') :
                  events'[j].current_state =
                    IF events'[j].kind = "onStateExited" THEN old ELSE t
     ]_vars

\* A successful transition_to between two different states with two different
\* listeners registered.
C1_Witness ==
  /\ op[1] = "transition_to"
  /\ ret = <<"ok">>
  /\ Len(listeners) = 2
  /\ listeners[1] # listeners[2]
  /\ Len(events) = 6
  /\ events[1].arg # current_state

\* C2: for a valid target t with no stored transition from current_state to t,
\* transition_to(t) leaves current_state unchanged, invokes no callback and
\* raises ValueError with a message naming the current state and the target.
C2_InvalidTransition ==
  [][(op'[1] = "transition_to" /\ ValidId(op'[2]) /\ ~Edge(current_state, op'[2]))
       => /\ current_state' = current_state
          /\ events' = <<>>
          /\ ret' = <<"ValueError", states[current_state + 1].name, states[op'[2] + 1].name>>
     ]_vars

\* A transition_to that failed for want of a transition, with listeners
\* registered and a target other than the current state.
C2_Witness ==
  /\ op[1] = "transition_to"
  /\ ret[1] = "ValueError"
  /\ ValidId(op[2])
  /\ op[2] # current_state
  /\ Len(listeners) = 2

\* The states reachable from the states of S over stored transitions, labels
\* ignored (S included: zero hops).
RECURSIVE ReachableFrom(_)
ReachableFrom(S) ==
  LET T == S \cup {b \in 0..(NumStates - 1) : \E a \in S : Edge(a, b)}
  IN IF T = S THEN S ELSE ReachableFrom(T)

\* The states that a walk of exactly k stored transitions leads to from s.
RECURSIVE ReachIn(_, _)
ReachIn(s, k) ==
  IF k = 0 THEN {s}
  ELSE {b \in 0..(NumStates - 1) : \E a \in ReachIn(s, k - 1) : Edge(a, b)}

\* C3: for valid ids, bfs(end, start) returns the empty sequence iff end is
\* unreachable from start over the stored transitions; otherwise a sequence
\* that starts with start, ends with end and whose consecutive pairs are each
\* connected by a stored transition.
C3_BfsPath ==
  (op[1] = "bfs" /\ ValidId(op[2]) /\ ValidId(op[3]))
    => /\ ret[1] = "ok"
       /\ LET end == op[2]
              start == op[3]
              p == ret[2]
          IN /\ (p = <<>>) <=> (end \notin ReachableFrom({start}))
             /\ p # <<>> =>
                  /\ p[1] = start
                  /\ p[Len(p)] = end
                  /\ \A i \in 1..(Len(p) - 1) : Edge(p[i], p[i + 1])

\* bfs returned a path of two hops.
C3_Witness ==
  /\ op[1] = "bfs"
  /\ ValidId(op[2]) /\ ValidId(op[3])
  /\ ret[1] = "ok"
  /\ Len(ret[2]) = 3

\* C4: bfs(end) without start, or with a negative start, searches from
\* current_state: it returns what bfs(end, current_state) returns.
C4_DefaultStart ==
  (op[1] = "bfs" /\ ValidId(op[2]) /\ op[3] < 0)
    => ret = bfs(op[2], current_state)

\* C5: a path that bfs(end, start) returns is a shortest one: no walk of
\* fewer stored transitions leads from start to end.
C5_Shortest ==
  (op[1] = "bfs" /\ ValidId(op[2]) /\ ValidId(op[3]) /\ ret[1] = "ok" /\ ret[2] # <<>>)
    => \A k \in 0..(Len(ret[2]) - 2) : op[2] \notin ReachIn(op[3], k)

\* bfs returned the one-hop path where a two-hop walk through a third state
\* exists as well.
C5_Witness ==
  /\ op[1] = "bfs"
  /\ ValidId(op[2]) /\ ValidId(op[3])
  /\ ret[1] = "ok"
  /\ Len(ret[2]) = 2
  /\ \E m \in 0..(NumStates - 1) :
       m \notin {op[2], op[3]} /\ Edge(op[3], m) /\ Edge(m, op[2])

\* The targets of the stored transitions from c labeled a.
ActionTargets(c, a) ==
  {transitions[k].to_state :
     k \in {j \in 1..Len(transitions) :
              transitions[j].from_state = c /\ transitions[j].action = a}}

\* The states reachable from the states of S by zero or more epsilon
\* transitions.
RECURSIVE EpsilonClosure(_)
EpsilonClosure(S) ==
  LET T == S \cup UNION {ActionTargets(s, None) : s \in S}
  IN IF T = S THEN S ELSE EpsilonClosure(T)

\* C6: simulate_action(a) returns exactly the ids of (T union E) minus
\* {current_state}: T the targets of current_state's transitions labeled a, E
\* the states reachable from T by zero or more epsilon transitions.
C6_ActionClosure ==
  (op[1] = "simulate_action" /\ ret[1] = "ok")
    => LET T == ActionTargets(current_state, op[2])
       IN Range(ret[2]) = (T \cup EpsilonClosure(T)) \ {current_state}

\* C7: between register_listener and transition_to calls in any order, a
\* simulate_action call changes neither current_state nor the listener
\* list nor the topology and invokes no listener; and it returns what the
\* first call with the same action since the last transition_to returned.
C7_SimulateFrame ==
  [][op'[1] = "simulate_action"
       => /\ current_state' = current_state
          /\ listeners' = listeners
          /\ states' = states
          /\ transitions' = transitions
          /\ events' = <<>>
          /\ simulated[op'[2]] # <<>> => ret' = simulated[op'[2]][1]
     ]_vars

\* A second simulate_action call with the same action, other calls in
\* between, on a machine with listeners that a transition_to has moved and
\* where the action leads somewhere.
C7_Witness ==
  /\ op[1] = "simulate_action"
  /\ simulated[op[2]] # <<>>
  /\ simulated[op[2]][2]
  /\ \A a \in ActionInputs : simulated[a] # <<>>
  /\ ret[1] = "ok"
  /\ ret[2] # <<>>
  /\ Len(listeners) > 0
  /\ current_state # 0

\* C8: for a valid id s, name(s) returns the name of state s and find_state
\* of that name is s; find_state of a name that no state has returns -1.
C8_NameRoundTrip ==
  /\ (op[1] = "name" /\ ValidId(op[2]))
       => /\ ret = <<"ok", states[op[2] + 1].name>>
          /\ find_state(ret[2]) = op[2]
  /\ (op[1] = "find_state" /\ \A i \in 1..NumStates : states[i].name # op[2])
       => ret = <<"ok", -1>>

\* C9: find_transition(a, b) returns the transition at the smallest position
\* of the stored sequence among those from a to b, and None exactly when there
\* is none; it raises nothing.
C9_FirstTransition ==
  op[1] = "find_transition"
    => LET matches == {k \in 1..Len(transitions) :
                         transitions[k].from_state = op[2] /\ transitions[k].to_state = op[3]}
       IN /\ ret[1] = "ok"
          /\ (ret[2] = NoTransition) <=> (matches = {})
          /\ matches # {} =>
               /\ ret[2] \in matches
               /\ \A k \in matches : ret[2] <= k

\* find_transition answered for a pair of states that two stored transitions
\* with different labels connect.
C9_Witness ==
  /\ op[1] = "find_transition"
  /\ ret[1] = "ok"
  /\ ret[2] # NoTransition
  /\ \E k \in 1..Len(transitions) :
       /\ k > ret[2]
       /\ transitions[k].from_state = op[2]
       /\ transitions[k].to_state = op[3]
       /\ transitions[k].action # transitions[ret[2]].action

\* C10: current_state is a valid index into the state sequence in every state
\* that calls of the public operations reach on a loaded machine.
C10_CurrentStateValid == 0 <= current_state /\ current_state < Len(states)

\* The same on the machines that have a state: what remains of C10 when the
\* state table is not empty.
C10_ValidWhenNonEmpty ==
  Len(states) > 0 => (0 <= current_state /\ current_state < Len(states))

\* The stored transitions that lead from s, and those that lead to s, in
\* storage order.
StoredFrom(s) ==
  SelectSeq([k \in 1..Len(transitions) |-> k], LAMBDA k : transitions[k].from_state = s)
StoredTo(s) ==
  SelectSeq([k \in 1..Len(transitions) |-> k], LAMBDA k : transitions[k].to_state = s)

\* C11: every stored transition leads from a valid state id to a valid state
\* id; the outgoing list of each state s holds exactly the stored transitions
\* with from_state = s and its incoming list exactly those with to_state = s,
\* each once and in storage order; in the loaded machine and after any sequence
\* of public operations.
C11_Topology ==
  /\ \A k \in 1..Len(transitions) :
       ValidId(transitions[k].from_state) /\ ValidId(transitions[k].to_state)
  /\ \A s \in 0..(NumStates - 1) :
       /\ states[s + 1].outgoing = StoredFrom(s)
       /\ states[s + 1].incoming = StoredTo(s)

\* A machine that a transition_to has moved, with a self-loop stored before
\* another transition that leaves the same state.
C11_Witness ==
  /\ op[1] = "transition_to"
  /\ ret = <<"ok">>
  /\ current_state # 0
  /\ Len(transitions) = 2
  /\ transitions[1].from_state = transitions[1].to_state
  /\ transitions[2].from_state = transitions[1].from_state
  /\ transitions[2].to_state # transitions[2].from_state

\* C12: from_csv raises and binds no machine exactly when some row of the
\* transition table names a source or a destination that the state table
\* lacks, whatever rows precede it; otherwise it returns a machine with one
\* transition per row, in row order, whose action is None for an empty action
\* field and the field itself for any other.
C12_Load ==
  [][op'[1] = "from_csv"
       => LET state_rows == op'[2]
              rows == op'[3]
              names == Range(state_rows)
          IN IF \E k \in 1..Len(rows) : rows[k][2] \notin names \/ rows[k][3] \notin names
             THEN /\ ret' = <<"ValueError">>
                  /\ states' = <<>>
                  /\ transitions' = <<>>
                  /\ UNCHANGED <<states, transitions, current_state, listeners>>
             ELSE /\ ret' = <<"ok">>
                  /\ Len(transitions') = Len(rows)
                  /\ \A k \in 1..Len(rows) :
                       transitions'[k].action =
                         IF rows[k][1] = "" THEN None ELSE Label(rows[k][1])
     ]_vars

\* A load that failed at its second row, after a row that names known states.
C12_Witness ==
  /\ op[1] = "from_csv"
  /\ Len(op) = 3
  /\ ret = <<"ValueError">>
  /\ Len(op[3]) = 2
  /\ op[3][1][2] \in Range(op[2])
  /\ op[3][1][3] \in Range(op[2])
  /\ op[3][2][3] = AbsentName

\* C13: for every valid state id s, bfs(s, s) returns the one-element sequence
\* <<s>>, whether or not a self-loop of s is stored or s lies on a cycle.
C13_SameState ==
  (op[1] = "bfs" /\ ValidId(op[2]) /\ op[3] = op[2])
    => ret = <<"ok", <<op[2]>> >>

\* bfs(s, s) answered for a state s that has a stored self-loop and lies on a
\* cycle through another state.
C13_Witness ==
  /\ op[1] = "bfs"
  /\ ValidId(op[2])
  /\ op[3] = op[2]
  /\ ret[1] = "ok"
  /\ Edge(op[2], op[2])
  /\ \E m \in 0..(NumStates - 1) : m # op[2] /\ Edge(op[2], m) /\ Edge(m, op[2])

\* C14: on the fixture (states start, middle, end; an epsilon transition from
\* start to middle and a press_a transition from middle to end) the freshly
\* loaded machine has current_state = 0; simulate_action(press_a) in state 0
\* returns the empty sequence; transition_to(1) in state 0 succeeds and makes
\* current_state 1; simulate_action(press_a) in state 1 returns <<2>>.
C14_Fixture ==
  [][/\ op = <<"from_csv">> => current_state = 0
     /\ (op'[1] = "simulate_action" /\ op'[2] = Label("press_a") /\ current_state = 0)
          => ret' = <<"ok", <<>> >>
     /\ (op'[1] = "transition_to" /\ op'[2] = 1 /\ current_state = 0)
          => (ret' = <<"ok">> /\ current_state' = 1)
     /\ (op'[1] = "simulate_action" /\ op'[2] = Label("press_a") /\ current_state = 1)
          => ret' = <<"ok", <<2>> >>
    ]_vars

\* The last call of the scenario: simulate_action(press_a) answered <<2>> in
\* state 1, which the machine was moved to.
C14_Witness ==
  /\ op[1] = "simulate_action"
  /\ op[2] = Label("press_a")
  /\ current_state = 1
  /\ ret = <<"ok", <<2>> >>
  /\ Len(transitions) = 2
  /\ transitions[1].action = None

\* The kinds of callback that the loop of transition_to that invokes `kind`
\* invokes.
RoundOf(kind) ==
  IF kind = "onStateExited" THEN {"onStateExited"} ELSE {"onStateEntered", "onTransition"}

\* C15: when a callback raises during the dispatch of transition_to, the call
\* ends with that failure at that callback (the last one invoked); in the loop
\* it was raised in, no callback went to a listener registered later; and
\* everything delivered before stays delivered: every callback of that loop to
\* each earlier registration, and, when the second loop failed, onStateExited
\* to every registration.
C15_ListenerFailure ==
  [][(op'[1] = "transition_to" /\ ret'[1] = "ListenerError")
       => LET n == Len(listeners)
              last == events'[Len(events')]
              round == RoundOf(last.kind)
          IN /\ Len(events') = ret'[2]
             /\ \A j \in 1..Len(events') :
                  events'[j].kind \in round => events'[j].pos <= last.pos
             /\ \A i \in 1..(last.pos - 1) :
                  \A kind \in round :
                    Len(EventsOfKind(EventsAt(events', i), kind)) = 1
             /\ last.kind # "onStateExited" =>
                  \A i \in 1..n :
                    Len(EventsOfKind(EventsAt(events', i), "onStateExited")) = 1
             /\ last.kind = "onStateEntered" =>
                  EventsOfKind(EventsAt(events', last.pos), "onTransition") = <<>>
     ]_vars

\* A transition_to that the first of two listeners ended by raising in
\* onStateEntered, after onStateExited went to both.
C15_Witness ==
  /\ op[1] = "transition_to"
  /\ ret[1] = "ListenerError"
  /\ Len(listeners) = 2
  /\ listeners[1] # listeners[2]
  /\ Len(events) = 3
  /\ events[3].pos = 1
  /\ events[3].kind = "onStateEntered"

\* C16 as stated: current_state changes only in a transition_to that succeeds
\* (every other operation and every transition_to that fails leave it
\* unchanged), and no operation changes the states or the transitions.
C16_Frame ==
  [][/\ current_state' # current_state => (op'[1] = "transition_to" /\ ret' = <<"ok">>)
     /\ states' = states
     /\ transitions' = transitions
    ]_vars

\* C16 amended: current_state changes only in a transition_to for which a
\* stored transition exists and whose onStateExited callbacks all returned, and
\* then to the target: find_state, name, find_transition, bfs, simulate_action,
\* register_listener, a transition_to that fails for want of a transition and
\* one in which an onStateExited callback raises leave it unchanged, while one
\* in which an onStateEntered or onTransition callback raises has already set
\* it to the target; no operation changes the states or the transitions.
C16_FrameAmended ==
  [][/\ current_state' # current_state =>
          /\ op'[1] = "transition_to"
          /\ Edge(current_state, op'[2])
          /\ current_state' = op'[2]
          /\ ret'[1] \in {"ok", "ListenerError"}
          /\ ret'[1] = "ListenerError" => events'[Len(events')].kind # "onStateExited"
     /\ (op'[1] = "transition_to" /\ ret'[1] = "ListenerError"
           /\ events'[Len(events')].kind # "onStateExited")
          => current_state' = op'[2]
     /\ (op'[1] = "transition_to" /\ ret' = <<"ok">>) => current_state' = op'[2]
     /\ states' = states
     /\ transitions' = transitions
    ]_vars

\* A transition_to to another state that ended with the failure of an
\* onStateEntered or onTransition callback, the machine already moved.
C16_Witness ==
  /\ op[1] = "transition_to"
  /\ ret[1] = "ListenerError"
  /\ events[Len(events)].kind # "onStateExited"
  /\ events[1].arg # op[2]
  /\ current_state = op[2]

\* C17 as stated: in a transition_to that succeeds with two or more listeners,
\* every onStateEntered callback is invoked before any onTransition callback.
C17_EnteredBeforeTransition ==
  [][(op'[1] = "transition_to" /\ ret' = <<"ok">> /\ Len(listeners) >= 2)
       => \A i \in 1..Len(events') : \A j \in 1..Len(events') :
            (events'[i].kind = "onStateEntered" /\ events'[j].kind = "onTransition")
              => i < j
     ]_vars

\* C17 amended: in a transition_to that succeeds with two or more listeners,
\* after onStateExited went to all of them the listeners are served one by
\* one in registration order, each receiving onStateEntered(target) and
\* directly after it onTransition(chosen); so each listener but the last
\* receives onTransition before the next one receives onStateEntered.
C17_ListenerByListener ==
  [][(op'[1] = "transition_to" /\ ret' = <<"ok">> /\ Len(listeners) >= 2)
       => LET n == Len(listeners)
          IN /\ Len(events') = 3 * n
             /\ \A i \in 1..n :
                  /\ events'[i].kind = "onStateExited"
                  /\ events'[i].pos = i
                  /\ events'[n + 2 * i - 1].kind = "onStateEntered"
                  /\ events'[n + 2 * i - 1].pos = i
                  /\ events'[n + 2 * i - 1].arg = op'[2]
                  /\ events'[n + 2 * i].kind = "onTransition"
                  /\ events'[n + 2 * i].pos = i
                  /\ events'[n + 2 * i].arg = events'[n + 2].arg
     ]_vars

\* A successful transition_to with two listeners in which the first received
\* onTransition before the second received onStateEntered.
C17_Witness ==
  /\ op[1] = "transition_to"
  /\ ret = <<"ok">>
  /\ Len(listeners) = 2
  /\ Len(events) = 6
  /\ events[4].kind = "onTransition"
  /\ events[4].pos = 1
  /\ events[5].kind = "onStateEntered"
  /\ events[5].pos = 2

\* C18: a transition_to that succeeds passes to every listener's onTransition
\* the same stored transition: the one at the smallest position among those
\* from the old current_state to the target, which is the one
\* find_transition(old, target) returns, whatever the labels.
C18_FirstParallel ==
  [][(op'[1] = "transition_to" /\ ret' = <<"ok">>)
       => LET matches == {k \in 1..Len(transitions) :
                            /\ transitions[k].from_state = current_state
                            /\ transitions[k].to_state = op'[2]}
              passed == EventsOfKind(events', "onTransition")
          IN /\ matches # {}
             /\ Len(passed) = Len(listeners)
             /\ \A i \in 1..Len(passed) :
                  /\ passed[i].arg \in matches
                  /\ \A k \in matches : passed[i].arg <= k
                  /\ passed[i].arg = find_transition(current_state, op'[2])
     ]_vars

\* A successful transition_to with two listeners over a pair of states that
\* two stored transitions with different labels connect.
C18_Witness ==
  /\ op[1] = "transition_to"
  /\ ret = <<"ok">>
  /\ Len(listeners) = 2
  /\ Len(transitions) = 2
  /\ transitions[1].from_state = events[1].arg
  /\ transitions[1].to_state = current_state
  /\ transitions[2].from_state = transitions[1].from_state
  /\ transitions[2].to_state = transitions[1].to_state
  /\ transitions[2].action # transitions[1].action

\* C19: when p = bfs(end, current_state) is not empty for a valid end, the
\* loop transition_to(p[1]), ..., transition_to(p[last]) (0-based) meets no
\* error at any step, the machine stands at the path's position reached, and
\* at the end of the path current_state = end; for a path of one element the
\* loop has no iteration and current_state is end already.
C19_FollowPath ==
  (op[1] = "observe_state" /\ ValidId(op[2]) /\ op[3] # <<>>)
    => /\ ret[1] = "ok"
       /\ current_state = op[3][op[4]]
       /\ op[4] = Len(op[3]) => current_state = op[2]
       /\ Len(op[3]) = 1 => (~ObserveRunning /\ events = <<>>)

\* The loop has followed a path of two transitions to its end.
C19_Witness ==
  /\ op[1] = "observe_state"
  /\ ValidId(op[2])
  /\ Len(op[3]) = 3
  /\ op[4] = 3
  /\ ret = <<"ok">>
  /\ current_state = op[2]

\* C20: for a valid id a with no stored transition from a to a,
\* find_transition(a, a) returns None, and transition_to(a) with
\* current_state = a raises the invalid-transition ValueError, invokes no
\* listener and leaves current_state; a transition that find_transition(a, a)
\* returns or that transition_to(a) takes from a is a stored one from a to a.
C20_NoImplicitSelfLoop ==
  [][/\ (op'[1] = "find_transition" /\ op'[2] = op'[3] /\ ValidId(op'[2])
           /\ ~Edge(op'[2], op'[2]))
          => ret' = <<"ok", NoTransition>>
     /\ (op'[1] = "transition_to" /\ op'[2] = current_state /\ ValidId(op'[2])
           /\ ~Edge(op'[2], op'[2]))
          => /\ ret' = <<"ValueError", states[op'[2] + 1].name, states[op'[2] + 1].name>>
             /\ events' = <<>>
             /\ current_state' = current_state
     /\ (op'[1] = "find_transition" /\ op'[2] = op'[3] /\ ret'[2] # NoTransition)
          => /\ ret'[2] \in 1..Len(transitions)
             /\ transitions[ret'[2]].from_state = op'[2]
             /\ transitions[ret'[2]].to_state = op'[2]
     /\ (op'[1] = "transition_to" /\ op'[2] = current_state /\ ret' = <<"ok">>)
          => /\ Edge(current_state, current_state)
             /\ \A j \in 1..Len(events') :
                  events'[j].kind = "onTransition"
                    => /\ events'[j].arg \in 1..Len(transitions)
                       /\ transitions[events'[j].arg].from_state = current_state
                       /\ transitions[events'[j].arg].to_state = current_state
    ]_vars

\* A transition_to to the current state, refused with listeners registered on
\* a machine that stores transitions leaving and reaching that state but no
\* self-loop of it.
C20_Witness ==
  /\ op[1] = "transition_to"
  /\ op[2] = current_state
  /\ ret[1] = "ValueError"
  /\ ValidId(op[2])
  /\ Len(listeners) = 2
  /\ \E m \in 0..(NumStates - 1) :
       m # current_state /\ Edge(current_state, m) /\ Edge(m, current_state)

\* The target of the first stored transition from s with the given action
\* whose target is not in seen; -1 when there is none.
FirstTarget(s, action, seen) ==
  LET ks == {k \in 1..Len(transitions) :
               /\ transitions[k].from_state = s
               /\ transitions[k].action = action
               /\ transitions[k].to_state \notin seen}
  IN IF ks = {} THEN -1
     ELSE transitions[CHOOSE k \in ks : \A j \in ks : k <= j].to_state

\* What a depth-first discovery puts at position i of r after r[1..i-1]: the
\* first undiscovered epsilon target of the latest state of r that has one,
\* else the first undiscovered target of a transition of current_state with
\* the action; -1 when the discovery is over.
DiscoveredNext(r, i, action) ==
  LET seen == {current_state} \cup {r[k] : k \in 1..(i - 1)}
      open == {j \in 1..(i - 1) : FirstTarget(r[j], None, seen) # -1}
  IN IF open # {}
     THEN FirstTarget(r[CHOOSE j \in open : \A k \in open : j >= k], None, seen)
     ELSE FirstTarget(current_state, action, seen)

\* C21: the sequence simulate_action returns holds no state id twice, never
\* holds current_state, and is in depth-first discovery order: each target of
\* a transition of current_state with the action is directly followed by the
\* states first discovered along its epsilon transitions, before the next
\* target; nothing discoverable is left out.
C21_DepthFirstOrder ==
  (op[1] = "simulate_action" /\ ret[1] = "ok")
    => LET r == ret[2]
       IN /\ \A i \in 1..Len(r) : \A j \in 1..Len(r) : i # j => r[i] # r[j]
          /\ \A i \in 1..Len(r) : r[i] # current_state
          /\ \A i \in 1..Len(r) : r[i] = DiscoveredNext(r, i, op[2])
          /\ DiscoveredNext(r, Len(r) + 1, op[2]) = -1

\* simulate_action returned a first target, then a state found behind it that
\* is no target itself, then a second target, on a machine whose root has two
\* transitions with the action.
C21_Witness ==
  /\ op[1] = "simulate_action"
  /\ ret[1] = "ok"
  /\ Len(ret[2]) = 3
  /\ ret[2][1] \in ActionTargets(current_state, op[2])
  /\ ret[2][2] \notin ActionTargets(current_state, op[2])
  /\ ret[2][3] \in ActionTargets(current_state, op[2])

\* C22: simulate_action(a) returns the empty sequence whenever no stored
\* transition from current_state has the action a, also when current_state
\* has epsilon transitions behind which transitions with a are stored.
C22_NoActionHop ==
  (op[1] = "simulate_action" /\ ret[1] = "ok"
     /\ \A k \in 1..Len(transitions) :
          transitions[k].from_state = current_state => transitions[k].action # op[2])
    => ret[2] = <<>>

\* simulate_action(a), a a label, returned the empty sequence in a state that
\* an epsilon transition leaves for a state with a transition labeled a to a
\* third state.
C22_Witness ==
  /\ op[1] = "simulate_action"
  /\ op[2] # None
  /\ ret = <<"ok", <<>> >>
  /\ \E m \in ActionTargets(current_state, None) :
       /\ m # current_state
       /\ ActionTargets(m, op[2]) \ {current_state, m} # {}

\* The states (list positions) that the ids of a sequence index, in order.
Positions(ids) == [k \in 1..Len(ids) |-> PyPos(NumStates, ids[k])]

NoRepeat(s) == \A i \in 1..Len(s) : \A j \in 1..Len(s) : i # j => s[i] # s[j]

\* C23: on every machine, cycles, self-loops, epsilon cycles and parallel
\* transitions included, a call of bfs puts each state into its queue at most
\* once and a call of simulate_action enters __perform_action for each state
\* at most once, and every call of either that is under way ends.
C23_Terminates ==
  /\ [](Running =>
          IF op[1] = "bfs" THEN NoRepeat(Positions(ret[2].enqueued))
          ELSE NoRepeat(Positions(ret[2].entered)))
  /\ (Running ~> ~Running)

\* The while loop of bfs has emptied its queue on a machine with a cycle
\* through two states, both of which it had queued.
C23_Witness ==
  /\ Running
  /\ op[1] = "bfs"
  /\ Len(ret[2].q) = 0
  /\ Len(ret[2].enqueued) >= 2
  /\ Edge(ret[2].enqueued[1], ret[2].enqueued[2])
  /\ Edge(ret[2].enqueued[2], ret[2].enqueued[1])
  /\ ret[2].enqueued[1] # ret[2].enqueued[2]

\* What the statement-by-statement calls return is what bfs and
\* simulate_action return.
RunAgrees ==
  (~Running /\ ret[1] = "ok" /\ op[1] # "from_csv")
    => ret = IF op[1] = "bfs" THEN bfs(op[2], op[3]) ELSE simulate_action(op[2])

\* C24: when an onStateExited callback raises, transition_to ends with
\* current_state still the old state and with no onStateEntered or
\* onTransition delivered to any listener; when an onStateEntered or
\* onTransition callback raises, it ends with current_state already the
\* target, the callbacks of the second loop having seen it so.
C24_FailurePhase ==
  [][(op'[1] = "transition_to" /\ ret'[1] = "ListenerError")
       => LET last == events'[Len(events')]
          IN IF last.kind = "onStateExited"
             THEN /\ current_state' = current_state
                  /\ \A j \in 1..Len(events') : events'[j].kind = "onStateExited"
             ELSE /\ current_state' = op'[2]
                  /\ last.current_state = op'[2]
                  /\ Edge(current_state, op'[2])
     ]_vars

\* A transition_to to another state that the second of two listeners ended
\* by raising in onStateExited.
C24_Witness ==
  /\ op[1] = "transition_to"
  /\ ret[1] = "ListenerError"
  /\ Len(listeners) = 2
  /\ Len(events) = 2
  /\ events[2].kind = "onStateExited"
  /\ op[2] # current_state

\* The callbacks of the first k recorded calls, in order.
RECURSIVE HeardUpTo(_, _)
HeardUpTo(log, k) == IF k = 0 THEN <<>> ELSE HeardUpTo(log, k - 1) \o log[k][4]

\* The number of the first k recorded calls that are of the operation and
\* ended the given way.
HeardCount(log, k, operation, ended) ==
  Cardinality({j \in 1..k : log[j][1] = operation /\ log[j][3] = ended})

\* The registrations made before the first recorded transition_to.
RegisteredFirst(log) ==
  {i \in 1..Len(listeners) :
     \A j \in 1..Len(log) :
       log[j][1] = "transition_to" =>
         HeardCount(log, j, "register_listener", "ok") >= i}

\* mine is a concatenation of triples onStateExited(x), onStateEntered(y),
\* onTransition(tr), tr a stored transition from x to y; x of the first triple
\* is the initial state 0 and x of each later triple is y of the one before.
TripleChain(mine) ==
  /\ Len(mine) % 3 = 0
  /\ \A t \in 1..(Len(mine) \div 3) :
       LET exited == mine[3 * t - 2]
           entered == mine[3 * t - 1]
           passed == mine[3 * t]
       IN /\ exited.kind = "onStateExited"
          /\ entered.kind = "onStateEntered"
          /\ passed.kind = "onTransition"
          /\ passed.arg \in 1..Len(transitions)
          /\ transitions[passed.arg].from_state = exited.arg
          /\ transitions[passed.arg].to_state = entered.arg
          /\ exited.arg = IF t = 1 THEN 0 ELSE mine[3 * t - 4].arg

\* The recorded calls that did not succeed invoked no callback.
FailingCallsSilent ==
  \A j \in 1..Len(HeardLog) : HeardLog[j][3] # "ok" => HeardLog[j][4] = <<>>

\* C25 as stated, the listener taken as the object that receives the
\* callbacks: over any sequence of succeeding and failing transition_to calls,
\* no callback raising, the events a listener registered before the first of
\* them receives are a concatenation of triples onStateExited(x),
\* onStateEntered(y), onTransition(tr) with tr from x to y, x of the first
\* triple the initial state and x of each later triple y of the one before;
\* failing calls contribute no event.
C25_Triples ==
  LET log == HeardLog
      all == HeardUpTo(log, Len(log))
  IN /\ \A i \in RegisteredFirst(log) :
          TripleChain(SelectSeq(all, LAMBDA e : e.listener = listeners[i]))
     /\ FailingCallsSilent

\* C25 amended: the same of the callbacks made for one registration; a
\* registration made before the first transition_to is served exactly one
\* triple per successful call.
C25_TriplesPerRegistration ==
  LET log == HeardLog
      all == HeardUpTo(log, Len(log))
  IN /\ \A i \in RegisteredFirst(log) :
          /\ TripleChain(EventsAt(all, i))
          /\ Len(EventsAt(all, i)) = 3 * HeardCount(log, Len(log), "transition_to", "ok")
     /\ FailingCallsSilent

\* A listener registered first has received two triples over three
\* transition_to calls, the second of which failed.
C25_Witness ==
  /\ Len(HeardLog) = 4
  /\ HeardLog[1][1] = "register_listener"
  /\ HeardLog[2][1] = "transition_to" /\ HeardLog[2][3] = "ok"
  /\ HeardLog[3][1] = "transition_to" /\ HeardLog[3][3] = "ValueError"
  /\ HeardLog[4][1] = "transition_to" /\ HeardLog[4][3] = "ok"
  /\ HeardLog[2][2] # 0

\* The arguments of the recorded register_listener calls among the first k
\* calls, in order.
RECURSIVE RegisteredUpTo(_, _)
RegisteredUpTo(log, k) ==
  IF k = 0 THEN <<>>
  ELSE IF log[k][1] = "register_listener"
  THEN Append(RegisteredUpTo(log, k - 1), log[k][2])
  ELSE RegisteredUpTo(log, k - 1)

\* C27: register_listener invokes no callback and only appends: the listener
\* sequence is the sequence of all registrations in the order made, none
\* removed, moved or merged; a successful transition_to delivers each kind of
\* callback to a listener object once per registration of it made before that
\* call (k times when registered k times, not at all when registered only
\* later).
C27_AppendOnly ==
  LET log == HeardLog
  IN /\ listeners = RegisteredUpTo(log, Len(log))
     /\ \A j \in 1..Len(log) :
          /\ log[j][1] = "register_listener" => log[j][4] = <<>>
          /\ (log[j][1] = "transition_to" /\ log[j][3] = "ok") =>
               LET before == RegisteredUpTo(log, j - 1)
               IN \A listener \in ListenerObjects :
                    \A kind \in {"onStateExited", "onStateEntered", "onTransition"} :
                      Len(SelectSeq(log[j][4],
                                    LAMBDA e : e.listener = listener /\ e.kind = kind))
                        = Len(SelectSeq(before, LAMBDA l : l = listener))

\* A listener registered twice received every callback of a successful
\* transition_to twice; the transition_to before its registrations, successful
\* as well, delivered nothing.
C27_Witness ==
  /\ Len(HeardLog) = 4
  /\ HeardLog[1][1] = "transition_to" /\ HeardLog[1][3] = "ok"
  /\ HeardLog[2][1] = "register_listener"
  /\ HeardLog[3][1] = "register_listener"
  /\ HeardLog[3][2] = HeardLog[2][2]
  /\ HeardLog[4][1] = "transition_to" /\ HeardLog[4][3] = "ok"
  /\ Len(HeardLog[4][4]) = 6

\* C26: every state id s that simulate_action(a) returns is reachable from
\* current_state over stored transitions: bfs(s, current_state) returns a
\* non-empty path (from current_state to s), and when a stored transition
\* labeled a leads from current_state to s, transition_to(s) succeeds, its
\* callbacks returning, and makes s the current state.
C26_ResultsReachable ==
  (op[1] = "simulate_action" /\ ret[1] = "ok") =>
    \A k \in 1..Len(ret[2]) :
      LET s == ret[2][k]
          found == bfs(s, current_state)
          moved == transition_to(s, 0)
      IN /\ found[1] = "ok"
         /\ found[2] # <<>>
         /\ found[2][1] = current_state
         /\ found[2][Len(found[2])] = s
         /\ s \in ActionTargets(current_state, op[2]) =>
              (moved.ret = <<"ok">> /\ moved.current_state = s)

\* simulate_action(a) returned a target of a transition labeled a and, after
\* it, a state that no transition from current_state leads to.
C26_Witness ==
  /\ op[1] = "simulate_action"
  /\ ret[1] = "ok"
  /\ Len(ret[2]) = 2
  /\ ret[2][1] \in ActionTargets(current_state, op[2])
  /\ ~Edge(current_state, ret[2][2])

====
